---- MODULE Spec2Model ----
(***************************************************************************)
(* A model of ForestSensAPI (src/ForestSensAPI/api.py): the control-plane  *)
(* calls, upload_files with its pool of upload_one workers, run_batch and  *)
(* download_results.                                                       *)
(*                                                                         *)
(* Strings are sequences of tokens.  A token is a separator character      *)
(* ("/" or "\\") or a word: a non-empty run of characters holding no       *)
(* separator.  strip, split, join, replace, basename and relpath only look *)
(* at separators, so they are modelled exactly on this representation.     *)
(***************************************************************************)
EXTENDS Integers, Sequences, FiniteSets, TLC

\* ------------------------------------------------------------------ bounds
\* at most this many files in an uploaded directory
MaxFiles == 2
\* at most this many files in the input directory of run_batch
MaxBatchFiles == 1
\* at most this many batches are created by the server in one behaviour
MaxBatches == 2
\* at most this many bytes are reported to one progress tracker
MaxBytes == 1
\* at most this many result files in the metadata of a batch
MaxResultFiles == 2

\* at most this many files in a directory uploaded through the pool alone
MaxPoolFiles == 5

\* ThreadPoolExecutor(max_workers=4)
MaxWorkers == 4

None == "None"
\* the value of a function that returns nothing
NoneValue == [type |-> "NoneType"]

\* ------------------------------------------------------- string operations
FSlash == "/"
BSlash == "\\"

RECURSIVE LStrip(_, _)
LStrip(s, c) ==
    IF s # <<>> /\ Head(s) = c THEN LStrip(Tail(s), c) ELSE s

RECURSIVE RStrip(_, _)
RStrip(s, c) ==
    IF s # <<>> /\ s[Len(s)] = c THEN RStrip(SubSeq(s, 1, Len(s) - 1), c) ELSE s

\* str.strip(c)
Strip(s, c) == RStrip(LStrip(s, c), c)

\* str.split on any of the separators in cs: always at least one part
RECURSIVE SplitOn(_, _)
SplitOn(s, cs) ==
    IF \A i \in 1..Len(s) : s[i] \notin cs
    THEN <<s>>
    ELSE LET i == CHOOSE k \in 1..Len(s) :
                      s[k] \in cs /\ \A j \in 1..(k - 1) : s[j] \notin cs
         IN  <<SubSeq(s, 1, i - 1)>> \o SplitOn(SubSeq(s, i + 1, Len(s)), cs)

\* c.join(parts)
RECURSIVE Join(_, _)
Join(parts, c) ==
    IF parts = <<>> THEN <<>>
    ELSE IF Len(parts) = 1 THEN parts[1]
    ELSE parts[1] \o <<c>> \o Join(Tail(parts), c)

\* str.replace(a, b) for single characters
Replace(s, a, b) == [i \in 1..Len(s) |-> IF s[i] = a THEN b ELSE s[i]]

\* the non-empty parts of a sequence of strings
RECURSIVE NonEmpty(_)
NonEmpty(parts) ==
    IF parts = <<>> THEN <<>>
    ELSE IF Head(parts) = <<>> THEN NonEmpty(Tail(parts))
    ELSE <<Head(parts)>> \o NonEmpty(Tail(parts))

\* ------------------------------------------------------------ os.path
\* The platform's separator is the state variable sep: "/" on POSIX, "\\" on
\* Windows, where "/" separates as well.
PathSeps(osSep) == IF osSep = BSlash THEN {BSlash, FSlash} ELSE {FSlash}

\* os.path.join(a, b) for a relative b
OsJoin(osSep, a, b) ==
    IF a = <<>> THEN b
    ELSE IF a[Len(a)] \in PathSeps(osSep) THEN a \o b
    ELSE a \o <<osSep>> \o b

\* os.path.basename(p): what follows the last separator
OsBasename(osSep, p) ==
    LET parts == SplitOn(p, PathSeps(osSep)) IN parts[Len(parts)]

\* the components of a normalised path
Components(osSep, p) == NonEmpty(SplitOn(p, PathSeps(osSep)))

\* os.path.relpath(p, start) for p below start
OsRelpath(osSep, p, start) ==
    LET pc == Components(osSep, p)
        sc == Components(osSep, start)
    IN  Join(SubSeq(pc, Len(sc) + 1, Len(pc)), osSep)

\* the path os.walk + os.path.join give the file whose names below root are
\* segs = <<dir, ..., dir, filename>>: dp is joined directory by directory
RECURSIVE WalkPath(_, _, _)
WalkPath(osSep, root, segs) ==
    IF segs = <<>> THEN root
    ELSE WalkPath(osSep, OsJoin(osSep, root, Head(segs)), Tail(segs))

\* ------------------------------------------------------- the file system
\* Files of the uploaded directory, each by its names below the root.  A
\* name is a string; on POSIX a name may hold a backslash.
FileA == << <<"a.txt">> >>
FileSubB == << <<"sub">>, <<"b.txt">> >>
FileSubA == << <<"sub">>, <<"a.txt">> >>
FileBackslash == << <<"x", BSlash, "y.txt">> >>

FileUniverse(osSep) ==
    {FileA, FileSubB, FileSubA} \cup (IF osSep = FSlash THEN {FileBackslash} ELSE {})

\* the directory trees: what os.walk finds below the root
Trees(osSep) == {t \in SUBSET FileUniverse(osSep) : Cardinality(t) <= MaxFiles}

\* the input directories of run_batch
BatchTrees(osSep) == {t \in SUBSET FileUniverse(osSep) : Cardinality(t) <= MaxBatchFiles}

DirPath == <<"data">>
FilePath(osSep) == <<"data", osSep, "in.tif">>
MissingPath == <<"nowhere">>
LocalPaths(osSep) == {DirPath, FilePath(osSep), MissingPath}

\* os.path.isdir, os.path.exists
IsDir(p) == p = DirPath
Exists(osSep, p) == p \in {DirPath, FilePath(osSep)}

\* sizes os.path.getsize may report
FileSizes == {0, 1}

\* ----------------------------------------------------------- upload URL
\* A URL is scheme://netloc + path; urlparse(url).path is its path.
Url(path) == [netloc |-> "host", path |-> path]
UrlPath(url) == url.path

UrlGood == Url(<<"/", "n", "/", "ns", "/", "b", "/", "bucket", "/", "o", "/", "prefix", "/">>)
UrlNested == Url(<<"/", "n", "/", "ns", "/", "b", "/", "bucket", "/", "o", "/", "pre", "/", "fix">>)
UrlFourSegments == Url(<<"/", "n", "/", "ns", "/", "b", "/", "bucket">>)
UrlThreeSegments == Url(<<"/", "n", "/", "ns", "/", "b">>)
UrlNoPath == Url(<<>>)
UploadUrls == {UrlGood, UrlNested, UrlFourSegments, UrlThreeSegments, UrlNoPath}

\* path_parts = parsed.path.strip('/').split('/')
PathParts(url) == SplitOn(Strip(UrlPath(url), FSlash), {FSlash})

\* the number of path segments of the URL
SegmentCount(url) == Len(NonEmpty(PathParts(url)))

\* path_parts[1] and path_parts[3] raise IndexError on a short list
ParseRaises(url) == Len(PathParts(url)) < 4

Namespace(url) == PathParts(url)[2]
Bucket(url) == PathParts(url)[4]

\* prefix = '/'.join(path_parts[5:]).rstrip('/') + '/'
Prefix(url) ==
    LET parts == PathParts(url)
    IN  RStrip(Join(SubSeq(parts, 6, Len(parts)), FSlash), FSlash) \o <<FSlash>>

\* a variant that keeps the platform's separators in the key
ObjectName_NoReplace(osSep, url, root, segs) ==
    Prefix(url) \o OsRelpath(osSep, WalkPath(osSep, root, segs), root)

\* rel = os.path.relpath(fp, local_path).replace("\\", "/");  oname = prefix + rel
ObjectName(osSep, url, root, segs) ==
    Prefix(url) \o Replace(OsRelpath(osSep, WalkPath(osSep, root, segs), root), BSlash, FSlash)

\* -------------------------------------------------- control-plane calls
\* What requests.get / requests.post gives: a RequestException (exc), or a
\* response with a status code and a body that is JSON (a payload) or not.
NotJson == [json |-> FALSE]
StatusCodes == {200, 304, 404, 500}

Responses(payloads) ==
    {[exc |-> TRUE, status |-> 0, body |-> NotJson]}
    \cup {[exc |-> FALSE, status |-> s, body |-> b] :
              s \in StatusCodes, b \in payloads \cup {NotJson}}

\* a variant that rejects server errors only
RaiseForStatus_ServerOnly(status) == 500 <= status /\ status < 600

\* Response.raise_for_status(): HTTPError for 4xx and 5xx
RaiseForStatus(status) == 400 <= status /\ status < 600

\* try: response = requests.<verb>(...); response.raise_for_status();
\*      return response.json()
\* except RequestException: logger.error(...); raise
Request(resp) ==
    IF resp.exc
    THEN [raised |-> TRUE, err |-> "RequestException", value |-> NotJson]
    ELSE IF RaiseForStatus(resp.status)
    THEN [raised |-> TRUE, err |-> "HTTPError", value |-> NotJson]
    ELSE IF resp.body = NotJson
    THEN [raised |-> TRUE, err |-> "JSONDecodeError", value |-> NotJson]
    ELSE [raised |-> FALSE, err |-> None, value |-> resp.body]

get_all_batches(resp) == Request(resp)
get_algorithms(resp) == Request(resp)
init_batch(resp) == Request(resp)
start_batch(resp) == Request(resp)
get_batch_status(resp) == Request(resp)
get_results(resp) == Request(resp)

Endpoints ==
    {"get_all_batches", "get_algorithms", "init_batch", "start_batch",
     "get_batch_status", "get_results"}

CallEndpoint(fn, resp) ==
    CASE fn = "get_all_batches" -> get_all_batches(resp)
      [] fn = "get_algorithms" -> get_algorithms(resp)
      [] fn = "init_batch" -> init_batch(resp)
      [] fn = "start_batch" -> start_batch(resp)
      [] fn = "get_batch_status" -> get_batch_status(resp)
      [] OTHER -> get_results(resp)

\* JSON payloads of the server
Json(v) == [json |-> TRUE, v |-> v]
ListPayloads == {Json("list")}
StartPayloads == {Json("started")}
StatusPayloads == {Json("running"), Json("finished")}

\* POST /batches: the batch id the server allocates and the upload URL; a
\* key may be missing from the answer (tests/test_api.py answers batch_id only)
BatchInfo(id, url, hasId, hasUrl) ==
    [json |-> TRUE, batch_id |-> id, object_storage_url |-> url,
     has_batch_id |-> hasId, has_url |-> hasUrl]
InitPayloads(id) ==
    {BatchInfo(id, u, TRUE, TRUE) : u \in UploadUrls}
    \cup {BatchInfo(id, UrlGood, FALSE, TRUE), BatchInfo(id, UrlGood, TRUE, FALSE)}

\* ------------------------------------------------------------- the state
VARIABLES
    sep,      \* os.sep of the platform
    oci,      \* whether the oci SDK was imported (api.py 13-18)
    nextId,   \* the server: the id of the next batch it creates
    rb,       \* the frame of run_batch
    calls,    \* the external calls of the current run_batch, in order
    up,       \* the frame of upload_files
    units,    \* the futures of upload_files: file -> its upload_one call
    api,      \* the last direct control-plane call and its outcome
    dl        \* the frame of download_results, with the output directory

vars == <<sep, oci, nextId, rb, calls, up, units, api, dl>>

Rest == {"idle", "returned", "raised"}

\* prev: the batch ids that earlier invocations of run_batch worked with
RbIdle ==
    [pc |-> "idle", path |-> <<>>, tree |-> {}, batch_id |-> 0, url |-> UrlNoPath,
     start_response |-> NotJson, status |-> NotJson, err |-> None, ret |-> NotJson,
     prev |-> {}]

UpIdle ==
    [pc |-> "idle", caller |-> None, url |-> UrlNoPath, path |-> <<>>, dir |-> FALSE,
     namespace |-> <<>>, bucket |-> <<>>, prefix |-> <<>>,
     tree |-> {}, err |-> None, ret |-> NoneValue, nres |-> 0, nerr |-> 0, ninfo |-> 0]

NoUnits == [f \in {} |-> 0]

ApiIdle ==
    [fn |-> None, exc |-> FALSE, status |-> 0, raised |-> FALSE, err |-> None,
     value |-> NotJson]

\* GET /batches/{id}/results: the names of the result files and the PAR URL
\* ("" when the answer holds none)
ResultNames == <<"out.tif", "b.tif", "c.tif">>
ResultLists == {SubSeq(ResultNames, 1, n) : n \in 0..MaxResultFiles}
ParUrls == {"https://par/", ""}
ResultPayloads ==
    {[json |-> TRUE, result_files |-> fs, par_url |-> p] :
         fs \in ResultLists, p \in ParUrls}

NoDisk == [n \in {} |-> "absent"]

\* what the HTTP layer answered to the metadata request
NoMeta == [exc |-> FALSE, status |-> 0, json |-> FALSE, par_url |-> ""]

\* disk: the files of output_dir (partial or complete); tries: the fetches
\* of each file; made: os.makedirs was called; nlog: logger.error lines;
\* meta: the answer to the metadata request
DlIdle ==
    [pc |-> "idle", files |-> <<>>, i |-> 0, made |-> FALSE, disk |-> NoDisk,
     tries |-> <<>>, err |-> None, nlog |-> 0, meta |-> NoMeta]

\* one future: st is new (listed by os.walk, not submitted), queued, running
\* or finished; subs counts the executor.submit calls for the file and puts
\* the upload_manager.upload_file calls; total and uploaded are the fields
\* of its SimpleProgress and reported is the sum of the deltas given to it; outcome says
\* whether upload_one returned a result or raised; done is the line
\* SimpleProgress.done printed; fault records what failed in the call, if
\* anything (getsize, the progress callback or the transport); header is the
\* etag header of the transport's response
Unit(st, oname) ==
    [st |-> st, oname |-> oname, subs |-> 0, total |-> 0, uploaded |-> 0,
     reported |-> 0, puts |-> 0, fault |-> "none", header |-> None, outcome |-> "none",
     result |-> [success |-> FALSE], done |-> "none", collected |-> FALSE]

Init ==
    /\ sep \in {FSlash, BSlash}
    /\ oci \in BOOLEAN
    /\ nextId = 1
    /\ rb = RbIdle
    /\ calls = <<>>
    /\ up = UpIdle
    /\ units = NoUnits
    /\ api = ApiIdle
    /\ dl = DlIdle

\* The client keeps no state between calls (its fields are set in __init__
\* only), so a behaviour of Spec makes one direct call on the fresh client;
\* BatchSpec calls run_batch again after it has ended.
Fresh == rb.pc = "idle" /\ up.pc = "idle" /\ api = ApiIdle /\ dl.pc = "idle"

\* ----------------------------------------------------------- run_batch
\* a variant that starts the batch whatever upload_files did
RbAfterUpload_IgnoresRaise(frame, upPc, upErr) == [frame EXCEPT !.pc = "start"]

\* a variant that gives up when a file was not uploaded
RbAfterUpload_ChecksFailures(frame, upPc, upErr) ==
    IF upPc = "raised"
    THEN [frame EXCEPT !.pc = "raised", !.err = upErr]
    ELSE IF \E f \in DOMAIN units : ~units[f].result.success
    THEN [frame EXCEPT !.pc = "raised", !.err = "UploadFailed"]
    ELSE [frame EXCEPT !.pc = "start"]

\* what run_batch does when upload_files has returned or raised (290-293)
RbAfterUpload(frame, upPc, upErr) ==
    IF upPc = "raised"
    THEN [frame EXCEPT !.pc = "raised", !.err = upErr]
    ELSE [frame EXCEPT !.pc = "start"]

\* the caller's frame once upload_files has ended with upPc
Resume(caller, upPc, upErr) ==
    IF caller = "run_batch" /\ upPc \in {"returned", "raised"}
    THEN RbAfterUpload(rb, upPc, upErr)
    ELSE rb

\* -------------------------------------------------------- upload_files
\* the file upload_one is called with: the root itself for a single file
FilePathOf(f) == WalkPath(sep, up.path, f)

SingleFile == <<>>

\* 196-204 and the branch of 243: the frame after the parse
UploadEntered(caller, url, path, tree) ==
    LET base == [UpIdle EXCEPT !.caller = caller, !.url = url, !.path = path,
                               !.tree = tree]
    IN  IF ~oci
        THEN [base EXCEPT !.pc = "raised", !.err = "ImportError"]
        ELSE IF ParseRaises(url)
        THEN [base EXCEPT !.pc = "raised", !.err = "IndexError"]
        ELSE [base EXCEPT !.namespace = Namespace(url), !.bucket = Bucket(url),
                          !.prefix = Prefix(url), !.dir = IsDir(path),
                          !.pc = IF IsDir(path)
                                 THEN (IF tree = {} THEN "collect" ELSE "submit")
                                 ELSE "single"]

\* a variant whose single-file branch keys the object by the whole local path
UnitsEntered_FullPathKey(url, path, tree) ==
    IF ~oci \/ ParseRaises(url) THEN NoUnits
    ELSE IF IsDir(path) THEN [f \in tree |-> Unit("new", <<>>)]
    ELSE [f \in {SingleFile} |-> Unit("queued", Prefix(url) \o path)]

\* 244-248: all_files, and 263-265: the one call of the single-file branch
UnitsEntered(url, path, tree) ==
    IF ~oci \/ ParseRaises(url) THEN NoUnits
    ELSE IF IsDir(path) THEN [f \in tree |-> Unit("new", <<>>)]
    ELSE [f \in {SingleFile} |->
              Unit("queued", Prefix(url) \o OsBasename(sep, path))]

upload_files_enter(caller, url, path, tree) ==
    /\ up' = UploadEntered(caller, url, path, tree)
    /\ units' = UnitsEntered(url, path, tree)

\* a direct call of upload_files
upload_files(url, path, tree) ==
    /\ Fresh
    /\ upload_files_enter("user", url, path, tree)
    /\ UNCHANGED <<sep, oci, nextId, rb, calls, api, dl>>

\* a variant whose submit loop ends after its first iteration
upload_files_submit_once(f) ==
    /\ up.pc = "submit"
    /\ units[f].st = "new"
    /\ units' = [units EXCEPT ![f].st = "queued", ![f].subs = @ + 1,
                              ![f].oname = ObjectName(sep, up.url, up.path, f)]
    /\ up' = [up EXCEPT !.pc = "collect"]
    /\ UNCHANGED <<sep, oci, nextId, rb, calls, api, dl>>

\* 253-256: one iteration of the submit loop, in the order os.walk listed
\* the files (any order)
upload_files_submit(f) ==
    /\ up.pc = "submit"
    /\ units[f].st = "new"
    /\ units' = [units EXCEPT ![f].st = "queued", ![f].subs = @ + 1,
                              ![f].oname = ObjectName(sep, up.url, up.path, f)]
    /\ up' = [up EXCEPT !.pc = IF \A g \in DOMAIN units \ {f} : units[g].st # "new"
                                 THEN "collect" ELSE "submit"]
    /\ UNCHANGED <<sep, oci, nextId, rb, calls, api, dl>>

Running == {f \in DOMAIN units : units[f].st = "running"}

\* a variant of the pool without a limit on its threads
WorkerFree_Always == TRUE

\* a pool thread is free for one more call (max_workers=4); the single-file
\* branch calls upload_one in the caller's thread
WorkerFree == ~up.dir \/ Cardinality(Running) < MaxWorkers

\* a variant without the except branch: the exception leaves upload_one
UploadOneExcept_Raise(u, file_path, msg) ==
    [u EXCEPT !.st = "finished", !.outcome = "exception", !.total = 0, !.uploaded = 0, !.reported = 0]

\* a variant whose except branch prints no final line
UploadOneExcept_NoDone(u, file_path, msg) ==
    [u EXCEPT !.st = "finished", !.outcome = "result", !.total = 0, !.uploaded = 0, !.reported = 0,
              !.result = [file |-> OsBasename(sep, file_path), success |-> FALSE,
                          error |-> msg]]

\* 233-241: the except branch of upload_one
UploadOneExcept(u, file_path, msg) ==
    [u EXCEPT !.st = "finished", !.outcome = "result", !.done = "FAILED TO UPLOAD",
              !.total = 0, !.uploaded = 0, !.reported = 0,
              !.result = [file |-> OsBasename(sep, file_path), success |-> FALSE,
                          error |-> msg]]

\* a variant that reports the whole path as the file name
UploadOneReturn_FullPath(u, file_path, etag) ==
    [u EXCEPT !.st = "finished", !.outcome = "result", !.done = "OK",
              !.total = 0, !.uploaded = 0, !.reported = 0,
              !.result = [file |-> file_path, success |-> TRUE, etag |-> etag]]

\* 227-232: the end of the try branch of upload_one
UploadOneReturn(u, file_path, etag) ==
    [u EXCEPT !.st = "finished", !.outcome = "result", !.done = "OK",
              !.total = 0, !.uploaded = 0, !.reported = 0,
              !.result = [file |-> OsBasename(sep, file_path), success |-> TRUE,
                          etag |-> etag]]

\* os.path.getsize: the size, or OSError; a missing path gives OSError
GetSizes(path) ==
    {[ok |-> FALSE, size |-> 0]}
    \cup (IF Exists(sep, up.path) THEN {[ok |-> TRUE, size |-> n] : n \in FileSizes}
          ELSE {})

\* 213-225: a thread starts upload_one: getsize, SimpleProgress, and the call
\* of upload_manager.upload_file
upload_one_begin(f, gs) ==
    /\ up.pc \in {"submit", "collect", "unwind", "single"}
    /\ units[f].st = "queued"
    /\ WorkerFree
    /\ units' = [units EXCEPT ![f] =
                    IF ~gs.ok
                    THEN UploadOneExcept([@ EXCEPT !.fault = "getsize"],
                                         FilePathOf(f), "OSError")
                    ELSE [@ EXCEPT !.st = "running", !.total = gs.size,
                                   !.uploaded = 0, !.reported = 0,
                                   !.puts = @ + 1]]
    /\ UNCHANGED <<sep, oci, nextId, rb, calls, up, api, dl>>

\* 179-182: SimpleProgress.__call__, called by the transport during the upload;
\* the division raises ZeroDivisionError when total is 0
upload_one_progress(f, delta) ==
    /\ units[f].st = "running"
    /\ units[f].uploaded + delta <= MaxBytes
    /\ units' = [units EXCEPT ![f] =
                    IF @.total = 0
                    THEN UploadOneExcept([@ EXCEPT !.fault = "callback"],
                                         FilePathOf(f), "ZeroDivisionError")
                    ELSE [@ EXCEPT !.uploaded = @ + delta, !.reported = @ + delta]]
    /\ UNCHANGED <<sep, oci, nextId, rb, calls, up, api, dl>>

\* what upload_manager.upload_file ends with: an exception, or a response
\* whose headers hold an etag or none (headers.get gives None)
TransportOutcomes ==
    {[raised |-> TRUE, etag |-> None],
     [raised |-> FALSE, etag |-> "etag-1"],
     [raised |-> FALSE, etag |-> None]}

\* 218-232: upload_file ends
upload_one_end(f, out) ==
    /\ units[f].st = "running"
    /\ units' = [units EXCEPT ![f] =
                    IF out.raised
                    THEN UploadOneExcept([@ EXCEPT !.fault = "transport"],
                                         FilePathOf(f), "TransportError")
                    ELSE UploadOneReturn([@ EXCEPT !.header = out.etag],
                                         FilePathOf(f), out.etag)]
    /\ UNCHANGED <<sep, oci, nextId, rb, calls, up, api, dl>>

\* a variant that logs every result as an error
ErrorsLogged_All(n, result) == n + 1

\* 260-261: a result that is not a success is logged as an error
ErrorsLogged(n, result) == IF result.success THEN n ELSE n + 1

\* 258-261: as_completed yields a finished future; future.result() re-raises
\* what upload_one raised
upload_files_collect(f) ==
    /\ up.pc = "collect"
    /\ units[f].st = "finished"
    /\ ~units[f].collected
    /\ units' = [units EXCEPT ![f].collected = TRUE]
    /\ up' = IF units[f].outcome = "exception"
             THEN [up EXCEPT !.pc = "unwind", !.err = "WorkerException"]
             ELSE [up EXCEPT !.nres = @ + 1,
                             !.nerr = ErrorsLogged(@, units[f].result)]
    /\ UNCHANGED <<sep, oci, nextId, rb, calls, api, dl>>

\* the as_completed loop has nothing left to yield
LoopOver == \A f \in DOMAIN units : units[f].collected

\* ThreadPoolExecutor.__exit__: shutdown(wait=True) joins the threads
PoolJoined == \A f \in DOMAIN units : units[f].st = "finished"

\* a variant that returns at the first failed result without joining the pool
upload_files_exit_early ==
    /\ up.pc = "collect"
    /\ LoopOver \/ \E f \in DOMAIN units : units[f].collected /\ ~units[f].result.success
    /\ up' = [up EXCEPT !.pc = "returned"]
    /\ rb' = Resume(up.caller, "returned", up.err)
    /\ UNCHANGED <<sep, oci, nextId, calls, units, api, dl>>

\* 251-261: the end of the with block, after the loop or while unwinding
upload_files_exit ==
    /\ up.pc \in {"collect", "unwind"}
    /\ up.pc = "collect" => LoopOver
    /\ PoolJoined
    /\ LET pc2 == IF up.pc = "unwind" THEN "raised" ELSE "returned"
       IN  /\ up' = [up EXCEPT !.pc = pc2]
           /\ rb' = Resume(up.caller, pc2, up.err)
    /\ UNCHANGED <<sep, oci, nextId, calls, units, api, dl>>

\* 265-269: upload_one has returned to the single-file branch
upload_files_single ==
    /\ up.pc = "single"
    /\ units[SingleFile].st = "finished"
    /\ LET u == units[SingleFile]
           pc2 == IF u.outcome = "exception" THEN "raised" ELSE "returned"
           err2 == IF u.outcome = "exception" THEN "WorkerException" ELSE up.err
       IN  /\ up' = [up EXCEPT !.pc = pc2, !.err = err2,
                               !.nres = IF pc2 = "returned" THEN @ + 1 ELSE @,
                               !.ninfo = IF pc2 = "returned" /\ u.result.success
                                         THEN @ + 1 ELSE @,
                               !.nerr = IF pc2 = "returned" /\ ~u.result.success
                                        THEN @ + 1 ELSE @]
           /\ rb' = Resume(up.caller, pc2, err2)
    /\ units' = [units EXCEPT ![SingleFile].collected = TRUE]
    /\ UNCHANGED <<sep, oci, nextId, calls, api, dl>>

\* ------------------------------------------------------------ run_batch
\* one external call of run_batch: the function, the batch id it was given
\* and, for a control-plane call, what the HTTP layer answered and the value
\* the call returned
Call(fn, id, resp) ==
    [fn |-> fn, id |-> id, exc |-> resp.exc, status |-> resp.status,
     value |-> Request(resp).value]
NoResponse == [exc |-> FALSE, status |-> 0, body |-> NotJson]

\* the server creates a batch when it answers POST /batches with a payload
Created(resp) == ~resp.exc /\ resp.body # NotJson

\* the batch ids known once the invocation of frame is over
Worked(frame) ==
    frame.prev \cup (IF frame.batch_id = 0 THEN {} ELSE {frame.batch_id})

\* a variant that carries on with the batch of the invocation before
run_batch_resume(path, tree) ==
    /\ Fresh \/ rb.pc \in {"returned", "raised"}
    /\ nextId <= MaxBatches
    /\ rb' = [RbIdle EXCEPT !.pc = IF rb.batch_id = 0 THEN "init" ELSE "upload",
                            !.batch_id = rb.batch_id, !.url = rb.url,
                            !.path = path, !.tree = tree, !.prev = Worked(rb)]
    /\ calls' = <<>>
    /\ up' = UpIdle
    /\ units' = NoUnits
    /\ UNCHANGED <<sep, oci, nextId, api, dl>>

\* a call of run_batch (271)
run_batch(path, tree) ==
    /\ Fresh \/ rb.pc \in {"returned", "raised"}
    /\ nextId <= MaxBatches
    /\ rb' = [RbIdle EXCEPT !.pc = "init", !.path = path, !.tree = tree,
                            !.prev = Worked(rb)]
    /\ calls' = <<>>
    /\ up' = UpIdle
    /\ units' = NoUnits
    /\ UNCHANGED <<sep, oci, nextId, api, dl>>

\* 284-287: batch_info = self.init_batch(...) and the two subscripts, the
\* URL first
RbAfterInit(frame, r) ==
    IF r.raised THEN [frame EXCEPT !.pc = "raised", !.err = r.err]
    ELSE IF ~r.value.has_url \/ ~r.value.has_batch_id
    THEN [frame EXCEPT !.pc = "raised", !.err = "KeyError"]
    ELSE [frame EXCEPT !.pc = "upload", !.batch_id = r.value.batch_id,
                       !.url = r.value.object_storage_url]

run_batch_init(resp) ==
    /\ rb.pc = "init"
    /\ calls' = Append(calls, Call("init_batch", 0, resp))
    /\ nextId' = IF Created(resp) THEN nextId + 1 ELSE nextId
    /\ rb' = RbAfterInit(rb, init_batch(resp))
    /\ UNCHANGED <<sep, oci, up, units, api, dl>>

\* 290: self.upload_files(upload_url, input_path)
run_batch_upload ==
    /\ rb.pc = "upload"
    /\ calls' = Append(calls, Call("upload_files", 0, NoResponse))
    /\ upload_files_enter("run_batch", rb.url, rb.path, rb.tree)
    /\ LET entered == UploadEntered("run_batch", rb.url, rb.path, rb.tree)
       IN  rb' = IF entered.pc = "raised"
                 THEN RbAfterUpload(rb, "raised", entered.err)
                 ELSE [rb EXCEPT !.pc = "uploading"]
    /\ UNCHANGED <<sep, oci, nextId, api, dl>>

\* 293: start_response = self.start_batch(batch_id)
RbAfterStart(frame, r) ==
    IF r.raised THEN [frame EXCEPT !.pc = "raised", !.err = r.err]
    ELSE [frame EXCEPT !.pc = "status", !.start_response = r.value]

run_batch_start(resp) ==
    /\ rb.pc = "start"
    /\ calls' = Append(calls, Call("start_batch", rb.batch_id, resp))
    /\ rb' = RbAfterStart(rb, start_batch(resp))
    /\ UNCHANGED <<sep, oci, nextId, up, units, api, dl>>

\* 296-302: status = self.get_batch_status(batch_id) and the summary
RbAfterStatus(frame, r) ==
    IF r.raised THEN [frame EXCEPT !.pc = "raised", !.err = r.err]
    ELSE [frame EXCEPT !.pc = "returned", !.status = r.value,
                       !.ret = [json |-> TRUE, batch_id |-> frame.batch_id,
                                start_response |-> frame.start_response,
                                status |-> r.value]]

run_batch_status(resp) ==
    /\ rb.pc = "status"
    /\ calls' = Append(calls, Call("get_batch_status", rb.batch_id, resp))
    /\ rb' = RbAfterStatus(rb, get_batch_status(resp))
    /\ UNCHANGED <<sep, oci, nextId, up, units, api, dl>>

\* ------------------------------------------------- direct control-plane calls
PayloadsOf(fn) ==
    CASE fn = "init_batch" -> InitPayloads(nextId)
      [] fn = "start_batch" -> StartPayloads
      [] fn = "get_batch_status" -> StatusPayloads
      [] fn = "get_results" -> ResultPayloads
      [] OTHER -> ListPayloads

api_call(fn, resp) ==
    /\ Fresh
    /\ nextId <= MaxBatches
    /\ LET r == CallEndpoint(fn, resp)
       IN  api' = [fn |-> fn, exc |-> resp.exc, status |-> resp.status,
                   raised |-> r.raised, err |-> r.err, value |-> r.value]
    /\ nextId' = IF fn = "init_batch" /\ Created(resp) THEN nextId + 1 ELSE nextId
    /\ UNCHANGED <<sep, oci, rb, calls, up, units, dl>>

\* ----------------------------------------------------- download_results
\* a variant that creates the output directory before it checks the PAR URL
DlEntered_MakedirsFirst(r) ==
    IF r.raised THEN [DlIdle EXCEPT !.pc = "raised", !.err = r.err]
    ELSE IF r.value.par_url = ""
    THEN [DlIdle EXCEPT !.pc = "raised", !.err = "ValueError", !.made = TRUE]
    ELSE [DlIdle EXCEPT !.pc = IF r.value.result_files = <<>> THEN "returned" ELSE "loop",
                        !.files = r.value.result_files, !.i = 1, !.made = TRUE,
                        !.tries = [k \in 1..Len(r.value.result_files) |-> 0]]

\* 145-152: get_results, the PAR URL check and os.makedirs
DlEntered(r) ==
    IF r.raised THEN [DlIdle EXCEPT !.pc = "raised", !.err = r.err]
    ELSE IF r.value.par_url = ""
    THEN [DlIdle EXCEPT !.pc = "raised", !.err = "ValueError"]
    ELSE [DlIdle EXCEPT !.pc = IF r.value.result_files = <<>> THEN "returned" ELSE "loop",
                        !.files = r.value.result_files, !.i = 1, !.made = TRUE,
                        !.tries = [k \in 1..Len(r.value.result_files) |-> 0]]

download_results(resp) ==
    /\ Fresh
    /\ dl' = [DlEntered(get_results(resp)) EXCEPT
                  !.meta = [exc |-> resp.exc, status |-> resp.status,
                            json |-> resp.body # NotJson,
                            par_url |-> IF resp.body = NotJson THEN ""
                                        ELSE resp.body.par_url]]
    /\ UNCHANGED <<sep, oci, nextId, rb, calls, up, units, api>>

\* how the fetch of one file ends: requests.get raises; raise_for_status
\* raises; open() raises OSError; iter_content raises a RequestException
\* after open() created the file; f.write raises OSError; or all is written
DownloadOutcomes ==
    {"RequestException", "HTTPError", "OpenOSError", "StreamError", "WriteOSError", "ok"}

\* only requests.exceptions.RequestException is caught (167)
Caught(out) == out \in {"RequestException", "HTTPError", "StreamError"}

\* the file at local_path after the fetch
OnDisk(out, before) ==
    CASE out = "ok" -> "complete"
      [] out \in {"StreamError", "WriteOSError"} -> "partial"
      [] OTHER -> before

\* 154-168: one iteration of the loop over the result files
download_results_file(out) ==
    /\ dl.pc = "loop"
    /\ LET name == dl.files[dl.i]
           before == IF name \in DOMAIN dl.disk THEN dl.disk[name] ELSE "absent"
           after == OnDisk(out, before)
           disk2 == IF after = "absent" THEN dl.disk
                    ELSE [n \in DOMAIN dl.disk \cup {name} |->
                              IF n = name THEN after ELSE dl.disk[n]]
       IN  dl' = [dl EXCEPT !.tries[dl.i] = @ + 1,
                            !.disk = disk2,
                            !.nlog = IF Caught(out) THEN @ + 1 ELSE @,
                            !.err = IF out = "ok" \/ Caught(out) THEN @ ELSE "OSError",
                            !.i = IF out = "ok" \/ Caught(out) THEN @ + 1 ELSE @,
                            !.pc = IF out # "ok" /\ ~Caught(out) THEN "raised"
                                   ELSE IF dl.i = Len(dl.files) THEN "returned"
                                   ELSE "loop"]
    /\ UNCHANGED <<sep, oci, nextId, rb, calls, up, units, api>>

Next ==
    \/ \E u \in UploadUrls, p \in LocalPaths(sep), t \in Trees(sep) :
           (IsDir(p) \/ t = {}) /\ upload_files(u, p, t)
    \/ \E f \in DOMAIN units : upload_files_submit(f)
    \/ \E f \in DOMAIN units, gs \in GetSizes(up.path) : upload_one_begin(f, gs)
    \/ \E f \in DOMAIN units, d \in 0..MaxBytes : upload_one_progress(f, d)
    \/ \E f \in DOMAIN units, o \in TransportOutcomes : upload_one_end(f, o)
    \/ \E f \in DOMAIN units : upload_files_collect(f)
    \/ upload_files_exit
    \/ upload_files_single
    \/ \E p \in LocalPaths(sep), t \in BatchTrees(sep) :
           (IsDir(p) \/ t = {}) /\ Fresh /\ run_batch(p, t)
    \/ \E resp \in Responses(InitPayloads(nextId)) : run_batch_init(resp)
    \/ run_batch_upload
    \/ \E resp \in Responses(StartPayloads) : run_batch_start(resp)
    \/ \E resp \in Responses(StatusPayloads) : run_batch_status(resp)
    \/ \E fn \in Endpoints : \E resp \in Responses(PayloadsOf(fn)) : api_call(fn, resp)
    \/ \E resp \in Responses(ResultPayloads) : download_results(resp)
    \/ \E out \in DownloadOutcomes : download_results_file(out)

Spec == Init /\ [][Next]_vars

\* ------------------------------------------------- the pool on its own
\* A directory of more files than the pool has threads: the files 1, 2, ...
\* directly under the root.  The scheduling of the pool does not depend on
\* the bytes reported or on why a call fails, so here every file has one
\* byte, no progress is reported, and the transport either fails or answers
\* with an etag.
PoolFile(i) == <<ToString(i)>>
PoolTrees == {{PoolFile(i) : i \in 1..n} : n \in 0..MaxPoolFiles}
PoolSizes == {[ok |-> TRUE, size |-> 1]}
PoolOutcomes == {o \in TransportOutcomes : o.raised \/ o.etag # None}

PoolInit == Init /\ sep = FSlash /\ oci

PoolNext ==
    \/ \E t \in PoolTrees : upload_files(UrlGood, DirPath, t)
    \/ \E f \in DOMAIN units : upload_files_submit(f)
    \/ \E f \in DOMAIN units, gs \in PoolSizes : upload_one_begin(f, gs)
    \/ \E f \in DOMAIN units, o \in PoolOutcomes : upload_one_end(f, o)
    \/ \E f \in DOMAIN units : upload_files_collect(f)
    \/ upload_files_exit

PoolSpec == PoolInit /\ [][PoolNext]_vars

\* ------------------------------------------- run_batch called repeatedly
\* run_batch is called again and again on one client, each time on the
\* directory data; as in PoolSpec every file has one byte, no progress is
\* reported, and the transport either fails or answers with an etag.
BatchInit == Init /\ sep = FSlash

BatchNext ==
    \/ \E t \in BatchTrees(sep) : run_batch(DirPath, t)
    \/ \E resp \in Responses(InitPayloads(nextId)) : run_batch_init(resp)
    \/ run_batch_upload
    \/ \E f \in DOMAIN units : upload_files_submit(f)
    \/ \E f \in DOMAIN units, gs \in PoolSizes : upload_one_begin(f, gs)
    \/ \E f \in DOMAIN units, o \in PoolOutcomes : upload_one_end(f, o)
    \/ \E f \in DOMAIN units : upload_files_collect(f)
    \/ upload_files_exit
    \/ \E resp \in Responses(StartPayloads) : run_batch_start(resp)
    \/ \E resp \in Responses(StatusPayloads) : run_batch_status(resp)

BatchSpec == BatchInit /\ [][BatchNext]_vars
\* ------------------------------------------------------------- the claims
CallNames == [i \in 1..Len(calls) |-> calls[i].fn]
RunBatchOrder == <<"init_batch", "upload_files", "start_batch", "get_batch_status">>

\* C1: run_batch makes its external calls in the order init_batch,
\* upload_files, start_batch, get_batch_status; when the create step gives no
\* batch, upload_files and start_batch are never called, and when upload_files
\* raises, start_batch is never called.
C1_CallOrder ==
    /\ Len(calls) <= 4
    /\ CallNames = SubSeq(RunBatchOrder, 1, Len(calls))
    /\ (rb.pc \notin {"idle", "init"} /\ rb.batch_id = 0)
           => (rb.pc = "raised" /\ CallNames = <<"init_batch">> /\ up.pc = "idle")
    /\ (up.caller = "run_batch" /\ up.pc = "raised")
           => (rb.pc = "raised" /\ CallNames = <<"init_batch", "upload_files">>)

\* a run_batch that made all four calls and returned
C1_Witness == rb.pc = "returned" /\ CallNames = RunBatchOrder

\* C2: a directory upload ends (returns or raises) only when every
\* dispatched upload_one call has finished, also when some of them failed.
C2_ReturnsAfterAllUnits ==
    (up.dir /\ up.pc \in {"returned", "raised"})
        => (DOMAIN units = up.tree
            /\ \A f \in DOMAIN units : units[f].st = "finished")

\* a directory upload of two files that returned with one failure
C2_Witness ==
    /\ up.dir /\ up.pc = "returned" /\ Cardinality(DOMAIN units) = 2
    /\ \E f, g \in DOMAIN units : ~units[f].result.success /\ units[g].result.success

\* C3 (as stated): an upload URL whose path has fewer than 5 segments makes
\* upload_files raise before any upload_one call and any progress line.
C3_ShortUrlRaises ==
    (up.pc # "idle" /\ SegmentCount(up.url) < 5)
        => (up.pc = "raised" /\ DOMAIN units = {})

\* C4 (as stated): upload_files raises for a local path that does not exist,
\* records no per-file failure for it, and run_batch then never calls
\* start_batch.
C4_MissingPathRaises ==
    /\ (up.pc \in {"returned", "raised"} /\ ~Exists(sep, up.path))
           => (up.pc = "raised" /\ \A f \in DOMAIN units : units[f].outcome # "result")
    /\ (rb.pc # "idle" /\ ~Exists(sep, rb.path))
           => \A i \in 1..Len(calls) : calls[i].fn # "start_batch"

\* the last name of a file: its base name
BaseName(f) == f[Len(f)]

\* C5 (as stated): a directory of N files gives N results whose filename
\* fields are pairwise distinct.
C5_DistinctFilenames ==
    (up.dir /\ up.pc = "returned")
        => /\ up.nres = Cardinality(up.tree)
           /\ \A f, g \in DOMAIN units :
                  f # g => units[f].result.file # units[g].result.file

\* C5 (amended): a directory of N files gives exactly N results, one per
\* file, and the filename field of each is the base name of its file.
C5_ResultPerFile ==
    (up.dir /\ up.pc = "returned")
        => /\ up.nres = Cardinality(up.tree)
           /\ DOMAIN units = up.tree
           /\ \A f \in up.tree :
                  /\ units[f].outcome = "result"
                  /\ units[f].collected
                  /\ units[f].result.file = BaseName(f)

\* a finished upload of a directory holding a.txt and sub/a.txt
C5_Witness ==
    up.dir /\ up.pc = "returned" /\ up.tree = {FileA, FileSubA} /\ up.nres = 2

Failed == {f \in DOMAIN units : units[f].fault # "none"}

C7_FailuresStayLocal ==
    /\ \A f \in DOMAIN units :
           /\ units[f].outcome # "exception"
           /\ (units[f].fault # "none")
                  => /\ units[f].st = "finished"
                     /\ units[f].outcome = "result"
                     /\ ~units[f].result.success
                     /\ units[f].result.error # None
                     /\ units[f].done = "FAILED TO UPLOAD"
    /\ up.pc # "unwind"
    /\ up.err # "WorkerException"
    /\ (up.pc = "returned") => \A f \in DOMAIN units : units[f].outcome = "result"

\* a finished directory upload with a failed file and an uploaded one
C7_Witness ==
    /\ up.dir /\ up.pc = "returned"
    /\ \E f, g \in DOMAIN units :
           /\ units[f].fault = "getsize"
           /\ units[g].result.success /\ units[g].puts = 1

ControlPlane == {"init_batch", "start_batch", "get_batch_status"}

C9_NeverRaisesInLoop ==
    /\ dl.pc = "raised" => ~dl.made
    /\ dl.pc = "returned" => \A k \in 1..Len(dl.files) : dl.tries[k] = 1

\* the relative path of a file with every separator written "/"
NormalizedRelPath(f) == Replace(Join(f, FSlash), BSlash, FSlash)

C11_SingleFile ==
    (up.pc \in {"single", "returned"} /\ ~up.dir)
        => /\ ~IsDir(up.path)
           /\ DOMAIN units = {SingleFile}
           /\ units[SingleFile].st # "new" /\ units[SingleFile].subs = 0
           /\ units[SingleFile].oname = up.prefix \o OsBasename(sep, up.path)
           /\ units[SingleFile].puts <= 1
           /\ up.pc = "returned"
                  => /\ units[SingleFile].st = "finished"
                     /\ units[SingleFile].outcome = "result"
                     /\ up.nres = 1

\* data/in.tif uploaded under a non-empty prefix
C11_Witness ==
    /\ up.pc = "returned" /\ ~up.dir /\ up.path = FilePath(sep)
    /\ up.prefix # <<>> /\ up.nres = 1
    /\ units[SingleFile].puts = 1 /\ units[SingleFile].result.success

\* C12: at most 4 upload_one calls are in progress at any time, however many
\* files the directory holds; while 4 are in progress no further call
\* starts: the next step can only end one of them.
C12_PoolCap ==
    [][/\ Cardinality(Running') <= 4
       /\ Cardinality(Running) = 4 => Running' \subseteq Running]_vars

\* four calls in progress while a fifth file waits in the queue of the pool
C12_Witness ==
    /\ up.dir /\ Cardinality(Running) = 4
    /\ \E f \in DOMAIN units : units[f].st = "queued"

\* C13: every upload_one call that has ended has returned a result and has
\* printed its final line through SimpleProgress.done, OK exactly when the
\* result has success = true and FAILED TO UPLOAD exactly when it has
\* success = false; no final line is printed while the call is not over.
C13_DoneMatchesResult ==
    \A f \in DOMAIN units :
        IF units[f].st = "finished"
        THEN /\ units[f].outcome = "result"
             /\ units[f].done = IF units[f].result.success
                                THEN "OK" ELSE "FAILED TO UPLOAD"
        ELSE units[f].done = "none"

\* one call ended by the transport's exception and one by an upload, both
\* collected
C13_Witness ==
    \E f, g \in DOMAIN units :
        /\ units[f].fault = "transport" /\ units[f].done = "FAILED TO UPLOAD"
        /\ units[g].puts = 1 /\ units[g].done = "OK"
        /\ units[f].collected /\ units[g].collected

\* C14: once upload_files has returned to run_batch without raising,
\* run_batch is at its call of start_batch or has made it as its third call,
\* whatever the results of the files are (all of them may have failed).
C14_StartsAfterUpload ==
    (up.caller = "run_batch" /\ up.pc = "returned")
        => \/ rb.pc = "start" /\ Len(calls) = 2
           \/ /\ rb.pc \in {"status", "returned", "raised"}
              /\ Len(calls) >= 3
              /\ calls[3].fn = "start_batch" /\ calls[3].id = rb.batch_id

\* a run_batch that returned although no file of its directory was uploaded
C14_Witness ==
    /\ rb.pc = "returned" /\ up.caller = "run_batch" /\ up.dir /\ up.tree # {}
    /\ \A f \in DOMAIN units : ~units[f].result.success
    /\ Len(calls) = 4 /\ calls[3].fn = "start_batch"

\* C15: in a directory upload the futures are exactly the files under the
\* root; each file is submitted to the pool at most once, and exactly once
\* when the submit loop is over; upload_manager.upload_file is called at
\* most once for a file, and exactly once for every file whose upload_one
\* call has ended unless os.path.getsize failed for it.
C15_EachFileOnce ==
    up.dir =>
        /\ DOMAIN units = up.tree
        /\ \A f \in up.tree :
               /\ units[f].subs = (IF units[f].st = "new" THEN 0 ELSE 1)
               /\ up.pc # "submit" => units[f].subs = 1
               /\ units[f].puts <= 1
               /\ units[f].puts = (IF units[f].st \in {"new", "queued"}
                                      \/ units[f].fault = "getsize"
                                   THEN 0 ELSE 1)

\* a returned upload of a directory of two files, each sent once
C15_Witness ==
    /\ up.dir /\ up.pc = "returned" /\ Cardinality(up.tree) = 2
    /\ \A f \in up.tree :
           units[f].subs = 1 /\ units[f].puts = 1 /\ units[f].result.success

\* C16: start_batch and get_batch_status are called with the batch id that
\* the init_batch call of the same run_batch invocation returned; the summary
\* run_batch returns holds that id, the answer of start_batch and the answer
\* of get_batch_status; an invocation after another one makes its own
\* init_batch call and works with an id that no earlier invocation had.
C16_BatchIdThreaded ==
    /\ \A i \in 1..Len(calls) :
           calls[i].fn \in {"start_batch", "get_batch_status"}
               => /\ calls[1].fn = "init_batch"
                  /\ calls[i].id = calls[1].value.batch_id
                  /\ calls[i].id \notin rb.prev
    /\ rb.pc = "returned"
           => /\ Len(calls) = 4
              /\ rb.ret = [json |-> TRUE, batch_id |-> calls[1].value.batch_id,
                           start_response |-> calls[3].value,
                           status |-> calls[4].value]
    /\ rb.batch_id # 0 => rb.batch_id \notin rb.prev

\* a second run_batch that returned, with another id than the first
C16_Witness ==
    /\ rb.pc = "returned" /\ rb.prev # {}
    /\ rb.ret.batch_id \notin rb.prev /\ calls[4].id = rb.ret.batch_id

\* C17 (as stated): no call of the progress tracker raises, whatever total
\* it was built with (0 for an empty file) and whatever deltas it is given,
\* and its uploaded field is the sum of the deltas given so far.
C17_TrackerNeverFails ==
    \A f \in DOMAIN units :
        /\ units[f].fault # "callback"
        /\ units[f].uploaded = units[f].reported

\* C18 (as stated): when download_results has returned, no file exists in
\* the output directory for an entry whose fetch failed (the request, the
\* status check, or the streaming of the body): every file in the directory
\* was written completely.
C18_NoFileAfterFailedFetch ==
    dl.pc = "returned"
        => \A k \in 1..Len(dl.files) :
               dl.files[k] \in DOMAIN dl.disk => dl.disk[dl.files[k]] = "complete"

\* C19: when the metadata request of download_results fails (a request
\* exception, a 4xx or 5xx answer, a body that is not JSON) or the metadata
\* holds no PAR URL, download_results raises without having created the
\* output directory, fetched a file or written one.
C19_RaisesBeforeAnyEffect ==
    (dl.pc # "idle"
     /\ (\/ dl.meta.exc
         \/ dl.meta.status >= 400 /\ dl.meta.status <= 599
         \/ ~dl.meta.json
         \/ dl.meta.par_url = ""))
        => /\ dl.pc = "raised"
           /\ ~dl.made
           /\ dl.disk = NoDisk
           /\ dl.tries = <<>> /\ dl.nlog = 0
           /\ dl.err = (IF dl.meta.exc THEN "RequestException"
                        ELSE IF dl.meta.status >= 400 THEN "HTTPError"
                        ELSE IF ~dl.meta.json THEN "JSONDecodeError"
                        ELSE "ValueError")

\* metadata answered with 200 and result files but no PAR URL
C19_Witness ==
    /\ dl.pc = "raised" /\ dl.err = "ValueError"
    /\ dl.meta.status = 200 /\ dl.meta.json /\ dl.meta.par_url = ""
====
